---- MODULE Spec2Model ----
(***************************************************************************)
(* Model of ratemykb's incremental processing state: the report codec      *)
(* (state.updateReport / state.loadExistingReport), the ProcessingState    *)
(* engine (state.New, IsFileProcessed, AddProcessedFile) and the driving   *)
(* loop of the CLI (rootCmd.RunE) over the scanner's results.              *)
(*                                                                         *)
(* Text is modelled as a sequence of tokens.  Every Go string the code     *)
(* builds or inspects is cut at the places where the code's prefix,        *)
(* suffix, regexp and separator tests can cut it, so HasPrefix, TrimSuffix,*)
(* ReplaceAll, the link regexp and the line scanner are computed on the    *)
(* text, not assumed.                                                      *)
(***************************************************************************)
EXTENDS Integers, Sequences, FiniteSets, TLC

(***************************************************************************)
(* Bounds of the model.                                                    *)
(***************************************************************************)
MaxRuns == 2
MaxFaults == 1
MaxCrashes == 1
MaxCalls == 2
MaxLines == 4
MaxContent == 6

(***************************************************************************)
(* Strings.                                                                *)
(***************************************************************************)
NL == "\n"
Separator == "/"
Backquote == "'"   \* stands for the backquote character of the header line
NoFile == "<absent>"

HasPrefix(s, p) == Len(s) >= Len(p) /\ SubSeq(s, 1, Len(p)) = p
HasSuffix(s, x) == Len(s) >= Len(x) /\ SubSeq(s, Len(s) - Len(x) + 1, Len(s)) = x
TrimPrefix(s, p) == IF HasPrefix(s, p) THEN SubSeq(s, Len(p) + 1, Len(s)) ELSE s
TrimSuffix(s, x) == IF HasSuffix(s, x) THEN SubSeq(s, 1, Len(s) - Len(x)) ELSE s
ReplaceAll(s, old, new) == [k \in 1..Len(s) |-> IF s[k] = old THEN new ELSE s[k]]

RECURSIVE Concat(_)
Concat(ss) == IF ss = <<>> THEN <<>> ELSE Head(ss) \o Concat(Tail(ss))

\* Byte order of the tokens that sort.Slice and sort.Strings compare.
TokenOrder ==
  <<".md", ".txt", "/", "/vault", "Empty", "Good", "Low quality",
    "a", "b", "sub", "vault-quality-report">>
Rank(t) == CHOOSE k \in 1..Len(TokenOrder) : TokenOrder[k] = t

RECURSIVE Less(_, _)
Less(s, t) ==
  IF t = <<>> THEN FALSE
  ELSE IF s = <<>> THEN TRUE
  ELSE IF Head(s) = Head(t) THEN Less(Tail(s), Tail(t))
  ELSE Rank(Head(s)) < Rank(Head(t))

RECURSIVE SortedMutant(_)
SortedMutant(S) ==
  IF S = {} THEN <<>>
  ELSE LET m == CHOOSE x \in S : \A y \in S \ {x} : Less(y, x)
       IN  <<m>> \o SortedMutant(S \ {m})

RECURSIVE Sorted(_)
Sorted(S) ==
  IF S = {} THEN <<>>
  ELSE LET m == CHOOSE x \in S : \A y \in S \ {x} : Less(x, y)
       IN  <<m>> \o Sorted(S \ {m})

Perms(S) == {q \in [1..Cardinality(S) -> S] : \A x \in S : \E k \in DOMAIN q : q[k] = x}

\* A run of bufio.MaxScanTokenSize (64 * 1024) characters without a line end: the
\* default buffer of bufio.Scanner cannot hold the line it stands in, Scan returns
\* false there and Err returns bufio.ErrTooLong.
LongRun == "x * 65536"
ScanFails(text) == \E k \in DOMAIN text : text[k] = LongRun

\* bufio.Scanner with the default ScanLines split function.
RECURSIVE ScanLines(_, _)
ScanLines(text, line) ==
  IF text = <<>> THEN (IF line = <<>> THEN <<>> ELSE <<line>>)
  ELSE IF Head(text) = NL THEN <<line>> \o ScanLines(Tail(text), <<>>)
  ELSE ScanLines(Tail(text), Append(line, Head(text)))

(***************************************************************************)
(* Paths.                                                                  *)
(***************************************************************************)
TargetFolder == <<"/vault">>
ExtTokens == {".md", ".txt", ".tmp"}

Join(dir, rel) == dir \o <<Separator>> \o rel
RelOK(base, path) == HasPrefix(path, base \o <<Separator>>)
Rel(base, path) == TrimPrefix(path, base \o <<Separator>>)
LastSep(path) ==
  IF \E k \in DOMAIN path : path[k] = Separator
  THEN CHOOSE k \in DOMAIN path :
         path[k] = Separator /\ \A j \in k+1..Len(path) : path[j] # Separator
  ELSE 0
Base(path) == SubSeq(path, LastSep(path) + 1, Len(path))
Ext(path) == IF path # <<>> /\ path[Len(path)] \in ExtTokens
             THEN <<path[Len(path)]>> ELSE <<>>

ReportPath == Join(TargetFolder, <<"vault-quality-report", ".md">>)
tempFileMutant == ReportPath
tempFile == ReportPath \o <<".tmp">>

(***************************************************************************)
(* Scanner statuses and result records.                                    *)
(***************************************************************************)
StatusEmpty == "Empty"
StatusFrontmatterOnly == "Frontmatter-only"
StatusNeedsReview == "Needs-review"
StatusExcluded == "Excluded"

ResultFile(p, s, c) == [Path |-> p, Status |-> s, Classification |-> c]

EmptyMap == <<>>
Put(pf, k, v) == [x \in (DOMAIN pf) \cup {k} |-> IF x = k THEN v ELSE pf[x]]

(***************************************************************************)
(* Report codec, encode path.                                              *)
(***************************************************************************)
formatObsidianLink(targetFolder, filePath) ==
  LET relPath  == IF RelOK(targetFolder, filePath)
                  THEN Rel(targetFolder, filePath) ELSE Base(filePath)
      baseName == ReplaceAll(TrimSuffix(relPath, Ext(relPath)), Separator, "/")
  IN  <<"[[">> \o baseName \o <<"]]">>

emptyFiles(pf) == {p \in DOMAIN pf : pf[p].Status = StatusEmpty}
frontmatterOnlyFiles(pf) ==
  {p \in DOMAIN pf : pf[p].Status # StatusEmpty /\ pf[p].Status = StatusFrontmatterOnly}
InClassMap(f) == ~(f.Status \in {StatusEmpty, StatusFrontmatterOnly}) /\ f.Classification # <<>>
classTypes(pf) == {pf[p].Classification : p \in {q \in DOMAIN pf : InClassMap(pf[q])}}
classFiles(pf, c) == {p \in DOMAIN pf : InClassMap(pf[p]) /\ pf[p].Classification = c}

EntryLines(paths) ==
  Concat([k \in 1..Len(paths) |->
            <<"- ">> \o formatObsidianLink(TargetFolder, paths[k]) \o <<NL>>])

ReservedSectionMutant(title, files, none) ==
  IF files = {} THEN <<>> ELSE <<"## ">> \o title \o <<NL, NL>> \o EntryLines(Sorted(files)) \o <<NL>>
ReservedSection(title, files, none) ==
  <<"## ">> \o title \o <<NL, NL>>
  \o (IF files = {} THEN <<none, NL, NL>> ELSE EntryLines(Sorted(files)) \o <<NL>>)

ClassSection(pf, c) ==
  <<"## ">> \o c \o <<" Files", NL, NL>> \o EntryLines(Sorted(classFiles(pf, c))) \o <<NL>>

\* statOrder is the order in which Go happens to iterate classificationMap.
ReportContent(pf, statOrder, now) ==
  <<"# Vault Quality Report", NL, NL>>
  \o <<"Generated on: ", ToString(now), NL, NL>>
  \o <<"Target folder: ", Backquote>> \o TargetFolder \o <<Backquote, NL, NL>>
  \o <<"## ", "Statistics", NL, NL>>
  \o <<"- ", "Total files processed: ", ToString(Cardinality(DOMAIN pf)), NL>>
  \o <<"- ", "Empty files: ", ToString(Cardinality(emptyFiles(pf))), NL>>
  \o <<"- ", "Files with frontmatter only: ",
       ToString(Cardinality(frontmatterOnlyFiles(pf))), NL>>
  \o Concat([k \in 1..Len(statOrder) |->
       <<"- ">> \o statOrder[k]
       \o <<" files: ", ToString(Cardinality(classFiles(pf, statOrder[k]))), NL>>])
  \o <<NL>>
  \o ReservedSection(<<"Empty", " Files">>, emptyFiles(pf), "No empty files found.")
  \o ReservedSection(<<"Files with Frontmatter Only">>, frontmatterOnlyFiles(pf),
                     "No files with frontmatter only found.")
  \o LET types == Sorted(classTypes(pf))
     IN  Concat([k \in 1..Len(types) |-> ClassSection(pf, types[k])])

\* Every text one call of updateReport can produce for pf at time now.
ReportContents(pf, now) == {ReportContent(pf, o, now) : o \in Perms(classTypes(pf))}

(***************************************************************************)
(* output.Generator.CreateReport: the report of a slice of results.        *)
(***************************************************************************)
GeneratorEmptyFiles(list) == SelectSeq(list, LAMBDA f : f.Status = StatusEmpty)
GeneratorFrontmatterOnlyFiles(list) ==
  SelectSeq(list, LAMBDA f : f.Status # StatusEmpty /\ f.Status = StatusFrontmatterOnly)
GeneratorClassTypes(list) ==
  {list[k].Classification : k \in {j \in DOMAIN list : InClassMap(list[j])}}
GeneratorClassFiles(list, c) ==
  SelectSeq(list, LAMBDA f : InClassMap(f) /\ f.Classification = c)

PathsOf(list) == [k \in DOMAIN list |-> list[k].Path]

GeneratorReserved(title, list, none) ==
  <<"## ">> \o title \o <<NL, NL>>
  \o (IF list = <<>> THEN <<none, NL, NL>> ELSE EntryLines(PathsOf(list)) \o <<NL>>)

\* statOrder and secOrder are the orders of the two iterations of classificationMap.
GeneratorContent(list, statOrder, secOrder, now) ==
  <<"# Vault Quality Report", NL, NL>>
  \o <<"Generated on: ", ToString(now), NL, NL>>
  \o <<"Target folder: ", Backquote>> \o TargetFolder \o <<Backquote, NL, NL>>
  \o <<"## ", "Statistics", NL, NL>>
  \o <<"- ", "Total files scanned: ", ToString(Len(list)), NL>>
  \o <<"- ", "Empty files: ", ToString(Len(GeneratorEmptyFiles(list))), NL>>
  \o <<"- ", "Files with frontmatter only: ",
       ToString(Len(GeneratorFrontmatterOnlyFiles(list))), NL>>
  \o Concat([k \in 1..Len(statOrder) |->
       <<"- ">> \o statOrder[k]
       \o <<" files: ", ToString(Len(GeneratorClassFiles(list, statOrder[k]))), NL>>])
  \o <<NL>>
  \o GeneratorReserved(<<"Empty", " Files">>, GeneratorEmptyFiles(list),
                       "No empty files found.")
  \o GeneratorReserved(<<"Files with Frontmatter Only">>, GeneratorFrontmatterOnlyFiles(list),
                       "No files with frontmatter only found.")
  \o Concat([k \in 1..Len(secOrder) |->
       <<"## ">> \o secOrder[k] \o <<" Files", NL, NL>>
       \o EntryLines(PathsOf(GeneratorClassFiles(list, secOrder[k]))) \o <<NL>>])

(***************************************************************************)
(* Report codec, decode path.                                              *)
(***************************************************************************)
convertObsidianLinkToPath(obsidianLink) ==
  Join(TargetFolder, ReplaceAll(obsidianLink, "/", Separator) \o <<".md">>)

\* regexp \[\[([^\]]+)\]\] : leftmost match, and its first submatch.
MatchAt(line, k) ==
  /\ line[k] = "[["
  /\ \E j \in k+2..Len(line) : line[j] = "]]" /\ \A m \in k+1..j-1 : line[m] # "]]"
HasMatch(line) == \E k \in DOMAIN line : MatchAt(line, k)
Submatch(line) ==
  LET k == CHOOSE x \in DOMAIN line : MatchAt(line, x) /\ \A y \in 1..x-1 : ~MatchAt(line, y)
      j == CHOOSE x \in k+2..Len(line) : line[x] = "]]" /\ \A m \in k+1..x-1 : line[m] # "]]"
  IN  SubSeq(line, k + 1, j - 1)

SectionRecordMutant(currentSection, filePath) ==
  IF currentSection = <<"Empty", " Files">>
  THEN ResultFile(filePath, StatusEmpty, <<"Empty">>)
  ELSE ResultFile(filePath, StatusNeedsReview, TrimSuffix(currentSection, <<" Files">>))
SectionRecord(currentSection, filePath) ==
  IF currentSection = <<"Empty", " Files">>
  THEN ResultFile(filePath, StatusEmpty, <<"Empty">>)
  ELSE IF currentSection = <<"Files with Frontmatter Only">>
  THEN ResultFile(filePath, StatusFrontmatterOnly, <<"Low quality">>)
  ELSE ResultFile(filePath, StatusNeedsReview, TrimSuffix(currentSection, <<" Files">>))

RECURSIVE LoadLines(_, _, _)
LoadLines(lines, currentSection, pf) ==
  IF lines = <<>> THEN pf
  ELSE LET line == Head(lines) IN
    IF HasPrefix(line, <<"## ">>)
    THEN LoadLines(Tail(lines), TrimPrefix(line, <<"## ">>), pf)
    ELSE IF HasPrefix(line, <<"- ", "[[">>) /\ currentSection # <<>> /\ HasMatch(line)
    THEN LET filePath == convertObsidianLinkToPath(Submatch(line))
         IN  LoadLines(Tail(lines), currentSection,
                       Put(pf, filePath, SectionRecord(currentSection, filePath)))
    ELSE LoadLines(Tail(lines), currentSection, pf)

loadExistingReport(text) == LoadLines(ScanLines(text, <<>>), <<>>, EmptyMap)

(***************************************************************************)
(* Inputs of the model: the documents of the target folder, the exclusion  *)
(* files a run may be given, the labels the classifier may answer.         *)
(***************************************************************************)
DocStems == {<<"a">>, <<"sub", "/", "b">>}
Kinds == {"empty", "frontmatter", "text"}
Extensions == {".md", ".txt"}
ExclusionFiles == {{}, {<<"a">>}}
Labels == {<<>>, <<"Good">>}
Statuses == {StatusEmpty, StatusFrontmatterOnly, StatusNeedsReview, StatusExcluded}
Steps == {"create", "write", "close", "rename"}

VARIABLES
  mode,        \* "cli": rootCmd.RunE drives the engine; "api", "codec", "writers": callers of the packages
  cfgExt,      \* scan_settings.file_extension
  docs,        \* the documents of the target folder: stem -> kind of content
  fs,          \* the report file and its temporary sibling: path -> text or NoFile
  ps,          \* ProcessingState.ProcessedFiles
  excludeList, \* Scanner.excludeList
  files,       \* result of ScanDirectory
  i,           \* index of the file the loop examines
  pc,          \* where the program is
  cur,         \* argument of the current or last AddProcessedFile
  lastErr,     \* what the last AddProcessedFile returned: "nil" or the failed step
  now,         \* the clock read by updateReport
  before,      \* history: the report file when the last AddProcessedFile began
  tmpBefore,   \* history: the temporary file when the last AddProcessedFile began
  newText,     \* history: the text the last updateReport generated
  genPf,       \* history: the map that newText encodes
  added,       \* history: paths passed to AddProcessedFile in this run
  classified,  \* history: paths passed to ClassifyContent in this run
  failed,      \* history: paths whose read or classification failed in this run
  totalAlreadyProcessed, \* the loop's counter of files skipped as already processed
  unsaved,     \* history: paths whose AddProcessedFile failed since the last success
  flushed,     \* history: unsaved paths and cur.Path at the last success
  prev,        \* history: how the previous run ended
  crashedAt,   \* history: pc at the last crash
  clean,       \* history: no read, classify or write failure in this run so far
  start,       \* history: the report state.New found, the fault that hit it, what it returned
  answer,      \* what the last IsFileProcessed of a caller of package state returned
  runs, faults, crashes, calls

vars == <<mode, cfgExt, docs, fs, ps, excludeList, files, i, pc, cur, lastErr, now,
          before, tmpBefore, newText, genPf, added, classified, failed,
          totalAlreadyProcessed, unsaved, flushed, prev, crashedAt, clean, start,
          answer, runs, faults, crashes, calls>>

config == <<mode, cfgExt, docs>>

NoRecord == ResultFile(<<>>, "", <<>>)
NoPrev == [complete |-> FALSE, clean |-> FALSE, added |-> {}, failed |-> {}, ps |-> EmptyMap,
           report |-> NoFile,
           excludeList |-> {}]

NoStart == [report |-> NoFile, fault |-> "none", err |-> "none", loaded |-> EmptyMap]

NoAnswer == [asked |-> FALSE, path |-> <<>>, result |-> FALSE]

Defaults ==
  /\ start = NoStart
  /\ answer = NoAnswer
  /\ excludeList = {}
  /\ files = <<>>
  /\ i = 1
  /\ cur = NoRecord
  /\ lastErr = "none"
  /\ now = 1
  /\ before = NoFile /\ tmpBefore = NoFile /\ newText = NoFile
  /\ genPf = EmptyMap
  /\ added = {} /\ classified = {} /\ failed = {} /\ totalAlreadyProcessed = 0 /\ unsaved = {} /\ flushed = {}
  /\ prev = NoPrev
  /\ crashedAt = "none"
  /\ clean = TRUE
  /\ runs = 0 /\ faults = 0 /\ crashes = 0 /\ calls = 0

InitialDocs ==
  {d \in [DocStems -> Kinds] :
     \/ d[<<"a">>] = "text" /\ d[<<"sub", "/", "b">>] = "frontmatter"
     \/ d[<<"a">>] = "empty" /\ d[<<"sub", "/", "b">>] = "text"}

InitCommon ==
  /\ cfgExt \in Extensions
  /\ fs = [f \in {ReportPath, tempFile} |-> NoFile]
  /\ ps = EmptyMap
  /\ pc = "idle"
  /\ Defaults

Init == mode = "cli" /\ docs \in InitialDocs /\ InitCommon

(***************************************************************************)
(* The file system calls of updateReport.                                  *)
(***************************************************************************)
Create(f, path) == [f EXCEPT ![path] = <<>>]
WriteString(f, path, text) == [f EXCEPT ![path] = text]
RemoveMutant(f, path) == f
Remove(f, path) == [f EXCEPT ![path] = NoFile]
Rename(f, from, to) ==
  [x \in DOMAIN f |-> IF x = to THEN f[from] ELSE IF x = from THEN NoFile ELSE f[x]]

(***************************************************************************)
(* package scanner                                                         *)
(***************************************************************************)
parseExclusionFile(links) ==
  links \cup {l \o <<".md">> : l \in {m \in links : ~HasSuffix(m, <<".md">>)}}

normalizePathForExclusionCheck(path) == TrimSuffix(Base(path), Ext(Base(path)))

DocPath(stem) == Join(TargetFolder, stem \o <<cfgExt>>)

\* The files filepath.Walk meets under the target folder.
TreeFiles == {DocPath(d) : d \in DocStems} \cup {p \in DOMAIN fs : fs[p] # NoFile}

\* strings.TrimSpace and strings.Split(content, "\n") on the characters of a file.
CR == "\r"
Space == {" ", NL, CR}
TrimSpace(s) ==
  LET ks == {k \in DOMAIN s : s[k] \notin Space}
  IN  IF ks = {} THEN <<>>
      ELSE SubSeq(s, CHOOSE k \in ks : \A j \in ks : k <= j,
                     CHOOSE k \in ks : \A j \in ks : j <= k)
RECURSIVE Split(_, _)
Split(s, line) ==
  IF s = <<>> THEN <<line>>
  ELSE IF Head(s) = NL THEN <<line>> \o Split(Tail(s), <<>>)
  ELSE Split(Tail(s), Append(line, Head(s)))

isFrontmatterOnlyMutant(content) ==
  LET lines == Split(content, <<>>)
  IN  Len(lines) >= 2 /\ lines[1] = <<"---">> /\ \E k \in 2..Len(lines) : lines[k] = <<"---">>
isFrontmatterOnly(content) ==
  LET lines == Split(content, <<>>)
  IN  IF Len(lines) < 2 \/ lines[1] # <<"---">> THEN FALSE
      ELSE LET ends == {k \in 2..Len(lines) : lines[k] = <<"---">>}
           IN  IF ends = {} THEN FALSE
               ELSE LET endIndex == CHOOSE k \in ends : \A j \in ends : k <= j
                    IN  \A k \in endIndex + 1..Len(lines) : TrimSpace(lines[k]) = <<>>

StatusOfContent(content) ==
  LET trimmedContent == TrimSpace(content)
  IN  IF trimmedContent = <<>> THEN StatusEmpty
      ELSE IF isFrontmatterOnly(trimmedContent) THEN StatusFrontmatterOnly
      ELSE StatusNeedsReview

checkFileStatus(path) ==
  IF path \in DOMAIN fs
  THEN StatusOfContent(fs[path])
  ELSE LET d == CHOOSE s \in DocStems : DocPath(s) = path
       IN  CASE docs[d] = "empty" -> StatusEmpty
             [] docs[d] = "frontmatter" -> StatusFrontmatterOnly
             [] OTHER -> StatusNeedsReview

ScanDirectory(excl) ==
  LET walk == Sorted({p \in TreeFiles : Ext(p) = <<cfgExt>>})
  IN  [k \in 1..Len(walk) |->
         [Path |-> walk[k],
          Status |-> IF normalizePathForExclusionCheck(walk[k]) \in excl
                     THEN StatusExcluded ELSE checkFileStatus(walk[k])]]

(***************************************************************************)
(* package state                                                           *)
(***************************************************************************)
New ==
  IF fs[ReportPath] # NoFile /\ ~ScanFails(fs[ReportPath])
  THEN loadExistingReport(fs[ReportPath]) ELSE EmptyMap

\* state.New when the access to the report file is hit by a fault: "stat" makes
\* os.Stat return an error, "open" makes os.Open or the line scanner return one.
ReportFaults == {"none", "stat", "open"}
NewWith(fault) ==
  IF fs[ReportPath] # NoFile /\ fault # "stat"
  THEN (IF fault = "open" \/ ScanFails(fs[ReportPath]) THEN [ps |-> EmptyMap, err |-> "load"]
        ELSE [ps |-> New, err |-> "nil"])
  ELSE [ps |-> EmptyMap, err |-> "nil"]
StartOf(fault) ==
  LET r == NewWith(fault)
  IN  [report |-> fs[ReportPath], fault |-> fault, err |-> r.err, loaded |-> r.ps]

IsFileProcessedMutant(filePath) == filePath \in DOMAIN ps /\ ps[filePath].Classification # <<>>
IsFileProcessed(filePath) == filePath \in DOMAIN ps

\* What the caller does once AddProcessedFile has returned err.
Return(err, path) ==
  /\ lastErr' = err
  /\ clean' = (clean /\ err = "nil")
  /\ IF mode = "cli" THEN pc' = "loop" /\ i' = i + 1 ELSE pc' = "ready" /\ i' = i
  /\ IF err = "nil"
     THEN unsaved' = {} /\ flushed' = unsaved \cup {path}
     ELSE unsaved' = unsaved \cup {path} /\ flushed' = flushed

\* ps.ProcessedFiles[file.Path] = file
StoredMutant(pf, file) == pf
StoredAloneMutant(pf, file) == Put(EmptyMap, file.Path, file)
Stored(pf, file) == Put(pf, file.Path, file)

\* AddProcessedFile up to and including updateReport's os.Create.
AddProcessedFile(file) ==
  /\ ps' = Stored(ps, file)
  /\ cur' = file
  /\ added' = added \cup {file.Path}
  /\ before' = fs[ReportPath]
  /\ tmpBefore' = fs[tempFile]
  /\ \/ /\ fs' = Create(fs, tempFile)
        /\ pc' = "write" /\ i' = i
        /\ lastErr' = "none"
        /\ UNCHANGED <<faults, clean, unsaved, flushed>>
     \/ /\ faults < MaxFaults
        /\ faults' = faults + 1
        /\ fs' = fs
        /\ Return("create", file.Path)
  /\ UNCHANGED <<now, newText, genPf>>

\* updateReport from the building of the content to file.WriteString.
WriteStep ==
  /\ pc = "write"
  /\ \E text \in ReportContents(ps, now) :
       /\ newText' = text
       /\ genPf' = ps
       /\ \/ /\ fs' = WriteString(fs, tempFile, text)
             /\ pc' = "close"
             /\ UNCHANGED <<i, lastErr, clean, unsaved, flushed, faults>>
          \/ /\ faults < MaxFaults
             /\ faults' = faults + 1
             /\ fs' = Remove(fs, tempFile)
             /\ Return("write", cur.Path)
  /\ now' = now + 1
  /\ UNCHANGED <<config, ps, excludeList, files, cur, before, tmpBefore, added,
                 classified, failed, totalAlreadyProcessed, prev, crashedAt, start, answer, runs, crashes, calls>>

CloseStep ==
  /\ pc = "close"
  /\ \/ /\ pc' = "rename"
        /\ UNCHANGED <<fs, i, lastErr, clean, unsaved, flushed, faults>>
     \/ /\ faults < MaxFaults
        /\ faults' = faults + 1
        /\ fs' = Remove(fs, tempFile)
        /\ Return("close", cur.Path)
  /\ UNCHANGED <<config, ps, excludeList, files, cur, now, before, tmpBefore, newText,
                 genPf, added, classified, failed, totalAlreadyProcessed, prev, crashedAt, start, answer, runs, crashes,
                 calls>>

RenameStep ==
  /\ pc = "rename"
  /\ \/ /\ fs' = Rename(fs, tempFile, ReportPath)
        /\ Return("nil", cur.Path)
        /\ UNCHANGED faults
     \/ /\ faults < MaxFaults
        /\ faults' = faults + 1
        /\ fs' = Remove(fs, tempFile)
        /\ Return("rename", cur.Path)
  /\ UNCHANGED <<config, ps, excludeList, files, cur, now, before, tmpBefore, newText,
                 genPf, added, classified, failed, totalAlreadyProcessed, prev, crashedAt, start, answer, runs, crashes,
                 calls>>

(***************************************************************************)
(* rootCmd.RunE: one run of the command line on the target folder.         *)
(***************************************************************************)
\* The history of the last AddProcessedFile is dropped where a run starts or ends.
ForgetCall ==
  /\ cur' = NoRecord /\ lastErr' = "none"
  /\ before' = NoFile /\ tmpBefore' = NoFile /\ newText' = NoFile /\ genPf' = EmptyMap
  /\ unsaved' = {} /\ flushed' = {}

\* state.New, scanner.New and ScanDirectory, up to the head of the loop.
CallNew(fault) ==
  /\ mode = "cli" /\ pc \in {"idle", "done", "failed"} /\ runs < MaxRuns
  /\ fault \in ReportFaults
  /\ IF fault = "none" THEN faults' = faults
     ELSE fs[ReportPath] # NoFile /\ faults < MaxFaults /\ faults' = faults + 1
  /\ start' = StartOf(fault)
  /\ ps' = start'.loaded
  /\ prev' = IF pc = "done"
             THEN [complete |-> TRUE, clean |-> clean, added |-> added, failed |-> failed,
                   ps |-> ps,
                   report |-> fs[ReportPath], excludeList |-> excludeList]
             ELSE NoPrev
  /\ added' = {} /\ classified' = {} /\ failed' = {} /\ clean' = TRUE
  /\ totalAlreadyProcessed' = 0
  /\ crashedAt' = "none"
  /\ ForgetCall
  /\ runs' = runs + 1
  /\ UNCHANGED <<config, fs, now, answer, crashes, calls>>

RunStart ==
  /\ \E fault \in ReportFaults : CallNew(fault) /\ start'.err = "nil"
  /\ \E links \in ExclusionFiles :
       LET excl == parseExclusionFile(links)
       IN  excludeList' = excl /\ files' = ScanDirectory(excl)
  /\ i' = 1 /\ pc' = "loop"

\* state.New returns an error and rootCmd.RunE returns it.
RunAbort ==
  /\ \E fault \in ReportFaults : CallNew(fault) /\ start'.err # "nil"
  /\ excludeList' = {} /\ files' = <<>>
  /\ i' = 1 /\ pc' = "failed"

AtFile == mode = "cli" /\ pc = "loop" /\ i <= Len(files)

\* The loop's frame for the branches that call AddProcessedFile.
AddFrame ==
  UNCHANGED <<config, excludeList, files, prev, crashedAt, start, answer, runs, crashes,
              calls>>

\* The loop's frame for the branches that go on to the next file.
Continue ==
  /\ i' = i + 1
  /\ UNCHANGED <<config, fs, ps, excludeList, files, pc, cur, lastErr, now, before,
                 tmpBefore, newText, genPf, added, unsaved, flushed, prev, crashedAt, start,
                 answer,
                 runs, crashes, calls>>

\* if file.Status == scanner.StatusNeedsReview
ToClassifyMutant(file) == file.Status # StatusExcluded
ToClassify(file) == file.Status = StatusNeedsReview

SkipProcessed ==
  /\ AtFile /\ IsFileProcessed(files[i].Path)
  /\ totalAlreadyProcessed' = totalAlreadyProcessed + 1
  /\ Continue
  /\ UNCHANGED <<classified, failed, clean, faults>>

ReadFails ==
  /\ AtFile /\ ~IsFileProcessed(files[i].Path)
  /\ ToClassify(files[i])
  /\ faults < MaxFaults /\ faults' = faults + 1
  /\ failed' = failed \cup {files[i].Path}
  /\ UNCHANGED totalAlreadyProcessed
  /\ clean' = FALSE
  /\ Continue
  /\ UNCHANGED classified

ClassifyFailsMutant ==
  /\ AtFile /\ ~IsFileProcessed(files[i].Path)
  /\ files[i].Status = StatusNeedsReview
  /\ faults < MaxFaults /\ faults' = faults + 1
  /\ classified' = classified \cup {files[i].Path}
  /\ failed' = failed \cup {files[i].Path}
  /\ UNCHANGED totalAlreadyProcessed
  /\ clean' = FALSE
  /\ ps' = Put(ps, files[i].Path, ResultFile(files[i].Path, files[i].Status, <<"Unknown">>))
  /\ i' = i + 1
  /\ UNCHANGED <<config, fs, excludeList, files, pc, cur, lastErr, now, before, tmpBefore,
                 newText, genPf, added, unsaved, flushed, prev, crashedAt, start, answer,
                 runs, crashes, calls>>
ClassifyFails ==
  /\ AtFile /\ ~IsFileProcessed(files[i].Path)
  /\ ToClassify(files[i])
  /\ faults < MaxFaults /\ faults' = faults + 1
  /\ classified' = classified \cup {files[i].Path}
  /\ failed' = failed \cup {files[i].Path}
  /\ UNCHANGED totalAlreadyProcessed
  /\ clean' = FALSE
  /\ Continue

Classify ==
  /\ AtFile /\ ~IsFileProcessed(files[i].Path)
  /\ ToClassify(files[i])
  /\ classified' = classified \cup {files[i].Path}
  /\ UNCHANGED <<failed, totalAlreadyProcessed>>
  /\ \E label \in Labels :
       AddProcessedFile(ResultFile(files[i].Path, files[i].Status, label))
  /\ AddFrame

AddEmpty ==
  /\ AtFile /\ ~IsFileProcessed(files[i].Path)
  /\ files[i].Status = StatusEmpty
  /\ AddProcessedFile(ResultFile(files[i].Path, files[i].Status, <<"Empty">>))
  /\ AddFrame /\ UNCHANGED <<classified, failed, totalAlreadyProcessed>>

AddFrontmatterOnly ==
  /\ AtFile /\ ~IsFileProcessed(files[i].Path)
  /\ files[i].Status = StatusFrontmatterOnly
  /\ AddProcessedFile(ResultFile(files[i].Path, files[i].Status, <<"Low quality">>))
  /\ AddFrame /\ UNCHANGED <<classified, failed, totalAlreadyProcessed>>

SkipExcluded ==
  /\ AtFile /\ ~IsFileProcessed(files[i].Path)
  /\ files[i].Status = StatusExcluded
  /\ Continue
  /\ UNCHANGED <<classified, failed, totalAlreadyProcessed, clean, faults>>

\* The numbers of the summary line printed after the loop.
Summary ==
  [new |-> Cardinality(DOMAIN ps) - totalAlreadyProcessed,
   already |-> totalAlreadyProcessed,
   total |-> Cardinality(DOMAIN ps)]

RunEnd ==
  /\ mode = "cli" /\ pc = "loop" /\ i > Len(files)
  /\ pc' = "done"
  /\ ForgetCall
  /\ UNCHANGED <<config, fs, ps, excludeList, files, i, now, added, classified, failed, totalAlreadyProcessed, prev,
                 crashedAt, start, answer, clean, runs, faults, crashes, calls>>

\* The process is killed; a kill during file.WriteString leaves part of the text.
Crash ==
  /\ pc \in {"loop", "write", "close", "rename"}
  /\ crashes < MaxCrashes /\ crashes' = crashes + 1
  /\ crashedAt' = pc
  /\ pc' = "idle"
  /\ ps' = EmptyMap /\ files' = <<>> /\ i' = 1
  /\ lastErr' = "none" /\ unsaved' = {} /\ flushed' = {}
  /\ clean' = FALSE
  /\ \/ fs' = fs
     \/ /\ pc = "write"
        /\ \E text \in ReportContents(ps, now) :
             fs' = WriteString(fs, tempFile, SubSeq(text, 1, Len(text) \div 2))
  /\ UNCHANGED <<config, excludeList, cur, now, before, tmpBefore, newText, genPf,
                 added, classified, failed, totalAlreadyProcessed, prev, start, answer, runs, faults, calls>>

\* The process is stopped between two files of the loop.
Kill == mode = "cli" /\ pc = "loop" /\ Crash

(***************************************************************************)
(* A caller of package state that passes any record to AddProcessedFile.   *)
(***************************************************************************)
ApiNew ==
  /\ mode = "api" /\ pc \in {"idle", "ready"}
  /\ start' = StartOf("none")
  /\ ps' = start'.loaded
  /\ pc' = "ready"
  /\ added' = {} /\ answer' = NoAnswer
  /\ ForgetCall
  /\ UNCHANGED <<config, fs, excludeList, files, i, now, classified, failed, totalAlreadyProcessed, prev,
                 crashedAt, clean, runs, faults, crashes, calls>>

ApiAdd ==
  /\ mode = "api" /\ pc = "ready" /\ calls < MaxCalls
  /\ calls' = calls + 1
  /\ \E d \in DocStems, s \in Statuses, l \in Labels :
       AddProcessedFile(ResultFile(DocPath(d), s, l))
  /\ answer' = NoAnswer
  /\ UNCHANGED <<config, excludeList, files, classified, failed, totalAlreadyProcessed, prev, crashedAt, start, runs,
                 crashes>>

\* The caller asks IsFileProcessed about a path, and goes on with the answer.
ApiFrame ==
  UNCHANGED <<config, fs, ps, excludeList, files, i, cur, lastErr, now, before,
              tmpBefore, newText, genPf, added, classified, failed, totalAlreadyProcessed, unsaved, flushed, prev,
              crashedAt, clean, start, runs, faults, crashes, calls>>

ApiQuery ==
  /\ mode = "api" /\ pc = "ready"
  /\ \E p \in {DocPath(d) : d \in DocStems} \cup DOMAIN ps :
       answer' = [asked |-> TRUE, path |-> p, result |-> IsFileProcessed(p)]
  /\ pc' = "asked"
  /\ ApiFrame

ApiResume ==
  /\ mode = "api" /\ pc = "asked"
  /\ answer' = NoAnswer
  /\ pc' = "ready"
  /\ ApiFrame

(***************************************************************************)
(* The codec on any map: ProcessedFiles is an exported field, and a caller *)
(* that has filled it upserts one of its records again, which rewrites the *)
(* report from the map as it is.                                           *)
(***************************************************************************)
CodecLabels == Labels \cup {<<"Empty">>, <<"Low quality">>}
CodecRecords(p) == {ResultFile(p, s, l) : s \in Statuses, l \in CodecLabels}
CodecMaps ==
  UNION {{pf \in [S -> UNION {CodecRecords(p) : p \in S}] : \A p \in S : pf[p].Path = p} :
         S \in SUBSET {DocPath(d) : d \in DocStems}}

Reupsert ==
  /\ mode \in {"codec", "writers"} /\ pc \in {"ready", "created"} /\ calls < MaxCalls
  /\ calls' = calls + 1
  /\ \E p \in DOMAIN ps : AddProcessedFile(ps[p])
  /\ UNCHANGED <<config, excludeList, files, classified, failed, totalAlreadyProcessed, prev, crashedAt, start, answer,
                 runs, crashes>>

\* output.Generator.CreateReport on the records of the map, handed over as a slice in
\* any order.  os.WriteFile either writes the text, or fails before it has opened the
\* file, or fails after it has truncated it.
CreateReport ==
  /\ mode = "writers" /\ pc \in {"ready", "created"} /\ calls < MaxCalls
  /\ calls' = calls + 1
  /\ \E order \in Perms(DOMAIN ps) :
       LET list == [k \in DOMAIN order |-> ps[order[k]]]
       IN  /\ files' = list
           /\ \E statOrder, secOrder \in Perms(GeneratorClassTypes(list)) :
                LET text == GeneratorContent(list, statOrder, secOrder, now)
                IN  \/ /\ fs' = WriteString(fs, ReportPath, text)
                       /\ lastErr' = "nil"
                       /\ UNCHANGED faults
                    \/ /\ faults < MaxFaults
                       /\ faults' = faults + 1
                       /\ fs' \in {fs, Create(fs, ReportPath)}
                       /\ lastErr' = "write"
  /\ pc' = "created"
  /\ now' = now + 1
  /\ UNCHANGED <<config, ps, excludeList, i, cur, before, tmpBefore, newText, genPf,
                 added, classified, failed, totalAlreadyProcessed, unsaved, flushed, prev, crashedAt, clean, start,
                 answer, runs, crashes>>

(***************************************************************************)
(* The scanner alone: scanner.New on any exclusion file, then ScanDirectory *)
(* on any content of the target folder.                                    *)
(***************************************************************************)
ExclusionLinks == {<<"a">>, <<"b">>, <<"sub", "/", "b">>, <<"a", ".md">>}

Scan ==
  /\ mode = "scan" /\ pc \in {"ready", "scanned"}
  /\ \E links \in SUBSET ExclusionLinks :
       LET excl == parseExclusionFile(links)
       IN  excludeList' = excl /\ files' = ScanDirectory(excl)
  /\ pc' = "scanned"
  /\ UNCHANGED <<config, fs, ps, i, cur, lastErr, now, before, tmpBefore, newText,
                 genPf, added, classified, failed, totalAlreadyProcessed, unsaved, flushed, prev, crashedAt, clean,
                 start, answer, runs, faults, crashes, calls>>

(***************************************************************************)
(* The loader alone: state.New on a folder that holds any report, written  *)
(* by the tool or edited by hand.                                          *)
(***************************************************************************)
Headings ==
  {<<"Empty", " Files">>, <<"Files with Frontmatter Only">>, <<"Good", " Files">>,
   <<"Good", " Files", " Files">>, <<"Notes">>, <<>>}
ReportLines ==
  {<<"## ">> \o h : h \in Headings}
  \cup {<<"- ">> \o formatObsidianLink(TargetFolder, Join(TargetFolder, d \o <<".md">>)) :
          d \in DocStems}
  \cup {<<"No empty files found.">>, <<"- ", "[[", "a">>, <<LongRun>>}
ReportTexts ==
  {Concat([k \in DOMAIN ls |-> ls[k] \o <<NL>>]) :
     ls \in UNION {[1..n -> ReportLines] : n \in 0..MaxLines}}

Load ==
  /\ mode = "load" /\ pc = "ready"
  /\ start' = StartOf("none")
  /\ ps' = start'.loaded
  /\ pc' = IF start'.err = "nil" THEN "loaded" ELSE "failed"
  /\ UNCHANGED <<config, fs, excludeList, files, i, cur, lastErr, now, before, tmpBefore,
                 newText, genPf, added, classified, failed, totalAlreadyProcessed, unsaved, flushed, prev, crashedAt,
                 clean, answer, runs, faults, crashes, calls>>

(***************************************************************************)
(* The pre-check alone: checkFileStatus on a file of any content.          *)
(***************************************************************************)
Characters == {"---", NL, " ", CR, "x"}
Contents == UNION {[1..n -> Characters] : n \in 0..MaxContent}

Check ==
  /\ mode = "status" /\ pc = "ready"
  /\ cur' = ResultFile(ReportPath, checkFileStatus(ReportPath), <<>>)
  /\ pc' = "checked"
  /\ UNCHANGED <<config, fs, ps, excludeList, files, i, lastErr, now, before, tmpBefore,
                 newText, genPf, added, classified, failed, totalAlreadyProcessed, unsaved, flushed, prev, crashedAt,
                 clean, start, answer, runs, faults, crashes, calls>>

Next ==
  \/ RunStart \/ RunAbort \/ SkipProcessed \/ ReadFails \/ ClassifyFails \/ Classify
  \/ AddEmpty \/ AddFrontmatterOnly \/ SkipExcluded \/ RunEnd
  \/ WriteStep \/ CloseStep \/ RenameStep \/ Kill

NextApi == ApiNew \/ ApiAdd \/ ApiQuery \/ ApiResume \/ WriteStep \/ CloseStep \/ RenameStep \/ Crash

NextCodec == Reupsert \/ WriteStep \/ CloseStep \/ RenameStep

NextWriters == Reupsert \/ CreateReport \/ WriteStep \/ CloseStep \/ RenameStep

InitApi == mode = "api" /\ docs = [d \in DocStems |-> "text"] /\ InitCommon

InitScan ==
  /\ mode = "scan" /\ docs \in [DocStems -> Kinds]
  /\ cfgExt \in Extensions
  /\ fs = [f \in {ReportPath, tempFile} |-> NoFile]
  /\ ps = EmptyMap
  /\ pc = "ready"
  /\ Defaults

InitStatus ==
  /\ mode = "status" /\ docs = [d \in DocStems |-> "text"]
  /\ cfgExt = ".md"
  /\ \E content \in Contents : fs = [f \in {ReportPath, tempFile} |->
                                       IF f = ReportPath THEN content ELSE NoFile]
  /\ ps = EmptyMap
  /\ pc = "ready"
  /\ Defaults

InitLoad ==
  /\ mode = "load" /\ docs = [d \in DocStems |-> "text"]
  /\ cfgExt \in Extensions
  /\ \E text \in ReportTexts : fs = [f \in {ReportPath, tempFile} |->
                                        IF f = ReportPath THEN text ELSE NoFile]
  /\ ps = EmptyMap
  /\ pc = "ready"
  /\ Defaults

\* The two writers of the report on the records of any map.
InitWriters ==
  /\ mode = "writers" /\ docs = [d \in DocStems |-> "text"]
  /\ cfgExt = ".md"
  /\ ps \in CodecMaps
  /\ fs = [f \in {ReportPath, tempFile} |-> NoFile]
  /\ pc = "ready"
  /\ Defaults

InitCodec ==
  /\ mode = "codec" /\ docs = [d \in DocStems |-> "text"]
  /\ cfgExt \in Extensions
  /\ ps \in CodecMaps
  /\ fs = [f \in {ReportPath, tempFile} |-> NoFile]
  /\ pc = "ready"
  /\ Defaults

Spec == Init /\ [][Next]_vars
SpecApi == InitApi /\ [][NextApi]_vars
SpecCodec == InitCodec /\ [][NextCodec]_vars
SpecWriters == InitWriters /\ [][NextWriters]_vars
SpecScan == InitScan /\ [][Scan]_vars
SpecLoad == InitLoad /\ [][Load]_vars
SpecStatus == InitStatus /\ [][Check]_vars

(***************************************************************************)
(* What the claims speak of.                                               *)
(***************************************************************************)
ReportText == IF fs[ReportPath] = NoFile THEN <<>> ELSE fs[ReportPath]

\* The links of the entry lines of a report.
EntryLinks(text) ==
  LET lines == ScanLines(text, <<>>)
  IN  {TrimPrefix(lines[k], <<"- ">>) :
         k \in {j \in DOMAIN lines : HasPrefix(lines[j], <<"- ", "[[">>)}}
Listed(text, path) == formatObsidianLink(TargetFolder, path) \in EntryLinks(text)

Reserved(f) == f.Status \in {StatusEmpty, StatusFrontmatterOnly}
\* A record the report has a section for.
Sectioned(f) == Reserved(f) \/ f.Classification # <<>>
\* A record as the driving loop builds it and the report can render it.
Canonical(f) ==
  CASE f.Status = StatusEmpty -> f.Classification = <<"Empty">>
    [] f.Status = StatusFrontmatterOnly -> f.Classification = <<"Low quality">>
    [] OTHER -> f.Classification # <<>>

SameLabels(pf, qf) ==
  /\ DOMAIN pf = DOMAIN qf
  /\ \A p \in DOMAIN pf : pf[p].Classification = qf[p].Classification

\* Two report files that differ at most in the generated-on line.
StripTime(text) ==
  [k \in DOMAIN text |-> IF k > 1 /\ text[k-1] = "Generated on: " THEN "" ELSE text[k]]
SameButTime(t, u) ==
  IF t = NoFile \/ u = NoFile THEN t = u ELSE StripTime(t) = StripTime(u)

Returned == pc \in {"loop", "ready"} /\ lastErr # "none"
InUpdate == pc \in {"write", "close", "rename"}

\* C1: after every AddProcessedFile that returns success, loadExistingReport on the
\* report on disk yields the paths of ProcessedFiles, each with its label.  Stated
\* for maps whose records all have a section of their own in the report.
C1_ReportReproducesState ==
  (Returned /\ lastErr = "nil" /\ \A p \in DOMAIN ps : Canonical(ps[p]))
    => SameLabels(loadExistingReport(ReportText), ps)

\* C2: round trip of the codec: a map whose records have a reserved status or a
\* non-empty label, written by updateReport and read back by loadExistingReport,
\* comes back with the same paths and labels.  Stated for reserved records that
\* carry the label of their status.
C2_RoundTrip ==
  (mode = "codec" /\ Returned /\ lastErr = "nil" /\ \A p \in DOMAIN ps : Canonical(ps[p]))
    => SameLabels(loadExistingReport(ReportText), ps)

\* C3: resume skip: state.New after a complete run knows every path that run passed
\* to AddProcessedFile.  Stated for a run in which nothing failed and for the paths
\* its report lists.
C3_ResumeSkip ==
  (mode = "cli" /\ pc \notin {"idle", "failed"} /\ start.fault = "none"
     /\ prev.complete /\ prev.clean)
    => \A p \in prev.added : Listed(prev.report, p) => IsFileProcessed(p)

\* C4: crash safety: at every point of an upsert, and after a crash at any of its
\* steps, the file at ReportPath is what it was before the upsert (absent if it was
\* absent) or the whole text updateReport generated, never a part of it.
C4_CrashSafe ==
  (InUpdate \/ Returned \/ (pc = "idle" /\ crashedAt \in {"write", "close", "rename"}))
    => \/ fs[ReportPath] = before
       \/ fs[ReportPath] = newText /\ newText # NoFile
C4_Witness ==
  /\ pc = "idle" /\ crashedAt = "rename"
  /\ before # NoFile /\ fs[ReportPath] = before
  /\ fs[tempFile] = newText /\ newText # before

C6_ListsEveryUnsaved ==
  /\ (Returned /\ lastErr \in Steps) => IsFileProcessed(cur.Path) /\ ps[cur.Path] = cur
  /\ (Returned /\ lastErr = "nil" /\ flushed # {cur.Path})
       => \A p \in flushed : Listed(ReportText, p)
\* C6 amended: ... writes a report that lists each of the two that has a reserved
\* status or a non-empty label.
C6_ListsSectionedUnsaved ==
  /\ (Returned /\ lastErr \in Steps) => IsFileProcessed(cur.Path) /\ ps[cur.Path] = cur
  /\ (Returned /\ lastErr = "nil" /\ flushed # {cur.Path})
       => \A p \in flushed : Sectioned(ps[p]) => Listed(ReportText, p)
C6_Witness ==
  /\ Returned /\ lastErr = "nil" /\ Cardinality(flushed) = 2
  /\ \A p \in flushed : Sectioned(ps[p]) /\ Listed(ReportText, p)

\* C7: no file the scanner tags Excluded in the current run is in ProcessedFiles or
\* listed in the persisted report, whatever the exclusion lists of earlier runs were.
C7_ExcludedNeverRecorded ==
  (mode = "cli" /\ pc \in {"loop", "done"})
    => \A k \in DOMAIN files :
         files[k].Status = StatusExcluded
           => ~IsFileProcessed(files[k].Path) /\ ~Listed(ReportText, files[k].Path)

\* C8: after the upsert of a record with an empty label and a status that is neither
\* Empty nor Frontmatter-only, the report lists its path in no section and state.New
\* on that report does not hold the path.
C8_EmptyLabelNotReported ==
  (Returned /\ lastErr = "nil" /\ cur.Classification = <<>> /\ ~Reserved(cur))
    => ~Listed(ReportText, cur.Path) /\ cur.Path \notin DOMAIN New
\* C9: deterministic encoding: two updateReport calls on the same ProcessedFiles
\* generate texts that differ at most in the generation time.
C9_DeterministicEncoding ==
  [][(pc = "write" /\ newText # NoFile /\ genPf = ps) => SameButTime(newText', newText)]_vars

\* C10: a second run on an unchanged folder, after a first run in which nothing
\* failed and with the same exclusion list, upserts nothing, classifies nothing and
\* leaves the report as it was but for the generated-on line.
C10_SecondRunIdle ==
  (mode = "cli" /\ pc \notin {"idle", "failed"} /\ start.fault = "none"
     /\ prev.complete /\ prev.clean /\ prev.excludeList = excludeList)
    => added = {} /\ classified = {} /\ SameButTime(fs[ReportPath], prev.report)

\* C11: state.New returns an empty map and no error when there is no report file;
\* when the report file exists and cannot be read it returns an error and no state,
\* and the run stops before any scan, classification or report write.
C11_NewOnMissingOrUnreadable ==
  (mode = "cli" /\ pc # "idle" /\ start.err # "none")
    => /\ start.report = NoFile => start.err = "nil" /\ start.loaded = EmptyMap
       /\ (start.report # NoFile /\ start.fault # "none")
            => /\ start.err = "load" /\ pc = "failed"
               /\ files = <<>> /\ added = {} /\ classified = {}
               /\ fs[ReportPath] = start.report

\* C12: the loop rewrites the whole report after each processed file and before it
\* examines the next one: right after a successful upsert the report lists exactly
\* the records loaded at the start of the run and those upserted so far, and a
\* state.New on it recovers exactly those paths.  Stated for runs whose records all
\* have a section in the report.
Recorded == DOMAIN start.loaded \cup added
C12_ReportIsPrefixOfRun ==
  (mode = "cli" /\ Returned /\ lastErr = "nil" /\ \A p \in DOMAIN ps : Sectioned(ps[p]))
    => /\ EntryLinks(ReportText) = {formatObsidianLink(TargetFolder, p) : p \in Recorded}
       /\ DOMAIN New = Recorded

\* C13: the loop passes a file to ClassifyContent only when the scanner gave it the
\* status Needs-review and IsFileProcessed returned false for it: never a file tagged
\* Empty, Frontmatter-only or Excluded, never a file already in the state.
C13_ClassifyOnlyNewNeedsReview ==
  [][(classified' \ classified # {})
       => /\ AtFile /\ files[i].Status = StatusNeedsReview
          /\ ~IsFileProcessed(files[i].Path)
          /\ classified' = classified \cup {files[i].Path}]_vars
C13_Witness ==
  /\ mode = "cli" /\ pc = "done" /\ classified # {}
  /\ \E k \in DOMAIN files :
       files[k].Status # StatusNeedsReview /\ files[k].Path \notin classified
  /\ \E k \in DOMAIN files :
       /\ files[k].Status = StatusNeedsReview /\ files[k].Path \in DOMAIN start.loaded
       /\ files[k].Path \notin classified

\* C14: every file that a link of the exclusion file names, a bare name such as
\* [[a]] as well as a link with a folder part such as [[sub/b]], gets the status
\* Excluded from ScanDirectory.
NamedBy(link, path) == formatObsidianLink(TargetFolder, path) = <<"[[">> \o link \o <<"]]">>
C14_LinkedFilesExcluded ==
  (mode = "scan" /\ pc = "scanned")
    => \A k \in DOMAIN files :
         (\E link \in excludeList : NamedBy(link, files[k].Path))
           => files[k].Status = StatusExcluded

\* C15: IsFileProcessed(p) changes neither ProcessedFiles nor the report file, and it
\* returns true exactly when state.New loaded p from the report or p was passed to an
\* AddProcessedFile since then, whether that call's report write succeeded or not.
C15_IsFileProcessedPure ==
  [][(answer'.asked /\ answer' # answer)
       => /\ ps' = ps /\ fs' = fs
          /\ answer'.result <=> (answer'.path \in DOMAIN start.loaded \cup added)]_vars
C15_Witness ==
  /\ pc = "asked" /\ answer.asked /\ answer.result /\ answer.path = cur.Path
  /\ lastErr \in Steps /\ answer.path \notin DOMAIN start.loaded

\* The labels of the per-label count lines of a report, in the order of the lines.
IsCountLine(line) == HasPrefix(line, <<"- ">>) /\ Len(line) >= 3 /\ line[Len(line) - 1] = " files: "
StatLabels(text) ==
  LET counts == SelectSeq(ScanLines(text, <<>>), IsCountLine)
  IN  [k \in DOMAIN counts |-> SubSeq(counts[k], 2, Len(counts[k]) - 2)]
Ascending(seq) == \A j, k \in DOMAIN seq : j < k => Less(seq[j], seq[k])

\* C16: in every report updateReport writes, the per-label count lines of the
\* Statistics block stand in lexicographic order of the label.
C16_StatisticsSorted ==
  (Returned /\ lastErr = "nil") => Ascending(StatLabels(ReportText))

\* The sections of a report: each heading with the links of the entries under it.
RECURSIVE SplitSections(_, _)
SplitSections(lines, secs) ==
  IF lines = <<>> THEN secs
  ELSE LET line == Head(lines) IN
    IF HasPrefix(line, <<"## ">>)
    THEN SplitSections(Tail(lines),
                       Append(secs, [title |-> TrimPrefix(line, <<"## ">>), entries |-> <<>>]))
    ELSE IF HasPrefix(line, <<"- ", "[[">>) /\ secs # <<>>
    THEN SplitSections(Tail(lines),
           [secs EXCEPT ![Len(secs)].entries = Append(@, TrimPrefix(line, <<"- ">>))])
    ELSE SplitSections(Tail(lines), secs)
SectionsOf(text) == SplitSections(ScanLines(text, <<>>), <<>>)
LabelOf(title) == TrimSuffix(title, <<" Files">>)
TitleEmpty == <<"Empty", " Files">>
TitleFrontmatterOnly == <<"Files with Frontmatter Only">>

\* The entries are the links of the paths S, in ascending order of path.
InPathOrder(entries, S) ==
  \E q \in Perms(S) :
    /\ Ascending(q)
    /\ entries = [j \in DOMAIN q |-> formatObsidianLink(TargetFolder, q[j])]

\* C17: in every report updateReport writes, the label sections follow the two
\* reserved sections in lexicographic order of label, and the entries of every
\* section, reserved or not, stand in lexicographic order of file path.
C17_SectionsAndEntriesSorted ==
  (Returned /\ lastErr = "nil")
    => LET secs == SectionsOf(ReportText)
           labels == [k \in 1..Len(secs) - 3 |-> LabelOf(secs[k + 3].title)]
       IN  /\ Len(secs) >= 3
           /\ secs[2].title = TitleEmpty /\ InPathOrder(secs[2].entries, emptyFiles(ps))
           /\ secs[3].title = TitleFrontmatterOnly
           /\ InPathOrder(secs[3].entries, frontmatterOnlyFiles(ps))
           /\ Ascending(labels)
           /\ {labels[k] : k \in DOMAIN labels} = classTypes(ps)
           /\ \A k \in DOMAIN labels : InPathOrder(secs[k + 3].entries, classFiles(ps, labels[k]))
C17_Witness ==
  /\ mode = "codec" /\ Returned /\ lastErr = "nil"
  /\ \E k \in DOMAIN SectionsOf(ReportText) : Len(SectionsOf(ReportText)[k].entries) = 2

\* The lines of a report under the heading at line k, up to the next heading.
HeadingLines(lines) == {k \in DOMAIN lines : HasPrefix(lines[k], <<"## ">>)}
BodyOf(lines, hs, k) ==
  LET next == IF \E h \in hs : h > k
              THEN CHOOSE h \in hs : h > k /\ \A g \in hs : g > k => h <= g
              ELSE Len(lines) + 1
  IN  {lines[j] : j \in k+1..next-1}
ReservedAt(lines, hs, k, title, none, vacant) ==
  /\ lines[k] = <<"## ">> \o title
  /\ vacant => /\ <<none>> \in BodyOf(lines, hs, k)
               /\ \A l \in BodyOf(lines, hs, k) : ~HasPrefix(l, <<"- ", "[[">>)
HasReservedSections(text, noEmpty, noFrontmatterOnly) ==
  LET lines == ScanLines(text, <<>>)
      hs == HeadingLines(lines)
  IN  \E e \in hs :
        /\ ReservedAt(lines, hs, e, TitleEmpty, "No empty files found.", noEmpty)
        /\ \E f \in hs :
             /\ e < f
             /\ ReservedAt(lines, hs, f, TitleFrontmatterOnly,
                           "No files with frontmatter only found.", noFrontmatterOnly)

\* C18: every report written by updateReport, and every report written by
\* output.Generator.CreateReport, has an 'Empty Files' section and after it a 'Files
\* with Frontmatter Only' section, whatever the records; a reserved section without
\* a record holds its 'No ... found.' line and no entry line.
C18_ReservedSectionsAlways ==
  /\ (Returned /\ lastErr = "nil")
       => HasReservedSections(ReportText, emptyFiles(ps) = {}, frontmatterOnlyFiles(ps) = {})
  /\ (pc = "created" /\ lastErr = "nil")
       => HasReservedSections(ReportText, GeneratorEmptyFiles(files) = <<>>,
                              GeneratorFrontmatterOnlyFiles(files) = <<>>)
C18_Witness ==
  /\ pc = "created" /\ lastErr = "nil" /\ newText # NoFile /\ genPf = ps
  /\ files # <<>> /\ GeneratorEmptyFiles(files) = <<>>
  /\ GeneratorFrontmatterOnlyFiles(files) # <<>>
  /\ <<"Empty">> \in GeneratorClassTypes(files)

\* The entry lines of a report that stand under a heading, each with the title of
\* that heading and the path its link names.
EntriesUnder(text) ==
  LET lines == ScanLines(text, <<>>)
      hs == HeadingLines(lines)
      above(k) == CHOOSE h \in hs : h < k /\ \A g \in hs : g < k => g <= h
  IN  {[at |-> k, heading |-> TrimPrefix(lines[above(k)], <<"## ">>),
        path |-> convertObsidianLinkToPath(Submatch(lines[k]))] :
         k \in {j \in DOMAIN lines : /\ HasPrefix(lines[j], <<"- ", "[[">>)
                                     /\ HasMatch(lines[j])
                                     /\ \E h \in hs : h < j}}
\* The entry that stands last among the entries of its path.
Final(e, entries) == \A o \in entries : o.path = e.path => o.at <= e.at
StatusUnder(heading) ==
  CASE heading = TitleEmpty -> StatusEmpty
    [] heading = TitleFrontmatterOnly -> StatusFrontmatterOnly
    [] OTHER -> StatusNeedsReview
LabelUnder(heading) ==
  CASE heading = TitleEmpty -> <<"Empty">>
    [] heading = TitleFrontmatterOnly -> <<"Low quality">>
    [] OTHER -> IF heading # <<>> /\ heading[Len(heading)] = " Files"
                THEN SubSeq(heading, 1, Len(heading) - 1) ELSE heading
MappedByHeading(e) ==
  /\ e.path \in DOMAIN ps
  /\ ps[e.path].Status = StatusUnder(e.heading)
  /\ ps[e.path].Classification = LabelUnder(e.heading)

\* C19 as stated: state.New gives every entry of the report, whatever its heading,
\* the status and the label of the heading it stands under.
C19_EveryHeading ==
  (mode = "load" /\ pc = "loaded")
    => LET entries == EntriesUnder(ReportText)
       IN  \A e \in entries : Final(e, entries) => MappedByHeading(e)
\* C19: state.New gives every entry that stands under a heading with a title the
\* status and the label of that heading: Empty and 'Empty' under 'Empty Files',
\* Frontmatter-only and 'Low quality' under 'Files with Frontmatter Only', else
\* Needs-review and the title without one trailing ' Files'; it loads nothing else.
C19_TitledHeading ==
  (mode = "load" /\ pc = "loaded")
    => LET entries == {e \in EntriesUnder(ReportText) : e.heading # <<>>}
       IN  /\ \A e \in entries : Final(e, entries) => MappedByHeading(e)
           /\ DOMAIN ps = {e.path : e \in entries}
C19_Witness ==
  /\ mode = "load" /\ pc = "loaded"
  /\ \E p, q \in DOMAIN ps :
       /\ ps[p].Status = StatusFrontmatterOnly
       /\ ps[q].Status = StatusNeedsReview /\ ps[q].Classification = <<"Good", " Files">>

\* C20: after a successful upsert, every record of the map whose status is neither
\* Empty nor Frontmatter-only and whose label is not empty, whatever the label, is
\* found again by state.New on the written report, under its path and with status
\* Needs-review.
C20_LabelledLoadsAsNeedsReview ==
  (mode = "codec" /\ Returned /\ lastErr = "nil")
    => \A p \in DOMAIN ps :
         (~Reserved(ps[p]) /\ ps[p].Classification # <<>>)
           => p \in DOMAIN New /\ New[p].Status = StatusNeedsReview

\* C21: state.New returns no error whatever the report holds, and loads every
\* well-formed entry that stands under a heading with a title; headings without
\* entries, lines without a well-formed link and entries before any heading add
\* nothing.
C21_ContentNeverFatal ==
  (mode = "load" /\ pc \in {"loaded", "failed"})
    => /\ start.err = "nil"
       /\ DOMAIN ps = {e.path : e \in {x \in EntriesUnder(ReportText) : x.heading # <<>>}}

\* C22: whatever the configured extension, a scanned file whose link is an entry of
\* the report state.New has loaded is in the loaded map under the very path
\* ScanDirectory reports, and IsFileProcessed recognises it while the loop runs.
C22_RebuiltPathIsScannedPath ==
  (mode = "cli" /\ pc = "loop" /\ start.fault = "none" /\ start.report # NoFile)
    => \A k \in DOMAIN files :
         Listed(start.report, files[k].Path)
           => files[k].Path \in DOMAIN start.loaded /\ IsFileProcessed(files[k].Path)

\* The lines of a content, and the content without the white space around it.
Blank(s) == \A k \in DOMAIN s : s[k] \in Space
Stripped(s) ==
  IF Blank(s) THEN <<>>
  ELSE LET lo == CHOOSE k \in DOMAIN s : s[k] \notin Space /\ Blank(SubSeq(s, 1, k - 1))
           hi == CHOOSE k \in DOMAIN s : s[k] \notin Space /\ Blank(SubSeq(s, k + 1, Len(s)))
       IN  SubSeq(s, lo, hi)
\* Position k of t holds a '---' that is a whole line.
MarkerAt(t, k) ==
  /\ t[k] = "---"
  /\ (k = 1 \/ t[k - 1] = NL)
  /\ (k = Len(t) \/ t[k + 1] = NL)
FrontmatterAlone(t) ==
  /\ t # <<>> /\ MarkerAt(t, 1)
  /\ \E c \in 2..Len(t) :
       /\ MarkerAt(t, c) /\ \A b \in 2..c-1 : ~MarkerAt(t, b)
       /\ Blank(SubSeq(t, c + 1, Len(t)))

\* C23: checkFileStatus gives a readable file one status: Empty when its content
\* is empty or white space; Frontmatter-only when the trimmed content begins with a
\* '---' line and the first later '---' line, which closes the frontmatter, has only
\* white space after it; Needs-review otherwise, frontmatter left open included.
C23_OneStatusPerContent ==
  (mode = "status" /\ pc = "checked")
    => LET content == fs[ReportPath]
       IN  cur.Status = (CASE Blank(content) -> StatusEmpty
                           [] ~Blank(content) /\ FrontmatterAlone(Stripped(content))
                                -> StatusFrontmatterOnly
                           [] OTHER -> StatusNeedsReview)
C23_Witness ==
  /\ mode = "status" /\ pc = "checked" /\ cur.Status = StatusNeedsReview
  /\ fs[ReportPath] = <<" ", "---", NL, "x", NL, " ">>

\* C24: the step at which the read or the classification of a Needs-review file
\* fails changes neither ProcessedFiles nor the files on disk; in the run after a
\* completed run a file that failed then is not in the loaded state, and when the
\* loop examines it IsFileProcessed is false, so it is read and classified again.
C24_FailedFileIsRetried ==
  [][/\ (failed' \ failed # {}) => ps' = ps /\ fs' = fs /\ added' = added
     /\ (mode' = "cli" /\ pc' = "loop" /\ prev'.complete)
          => \A p \in prev'.failed :
               /\ p \notin DOMAIN start'.loaded
               /\ (i' <= Len(files') /\ files'[i'].Path = p) => p \notin DOMAIN ps']_vars
C24_Witness ==
  /\ mode = "cli" /\ prev.complete /\ start.report # NoFile
  /\ \E p \in prev.failed : p \in classified /\ p \in added /\ p \in DOMAIN ps

\* C25: while a run lasts, every path state.New has loaded and every path passed to
\* AddProcessedFile is still in ProcessedFiles, and every report written in the run
\* lists every loaded path, also one that is not among the scanned files.
C25_StateOnlyGrows ==
  (mode = "cli" /\ pc \in {"loop", "write", "close", "rename", "done"})
    => /\ \A p \in DOMAIN start.loaded \cup added : IsFileProcessed(p)
       /\ (Returned /\ lastErr = "nil" /\ start.loaded # EmptyMap)
            => LET links == EntryLinks(ReportText)
               IN  \A p \in DOMAIN start.loaded :
                     formatObsidianLink(TargetFolder, p) \in links
C25_Witness ==
  /\ mode = "cli" /\ Returned /\ lastErr = "nil"
  /\ cur.Path \notin DOMAIN start.loaded
  /\ \E p \in DOMAIN start.loaded : \A k \in DOMAIN files : files[k].Path # p

\* C26: the loop passes no path to AddProcessedFile that state.New has loaded, and
\* in the run after a completed run without failure every path that run held with a
\* section of its own in the report still has the label it had then.
C26_LabelNeverChanges ==
  (mode = "cli" /\ pc \in {"loop", "write", "close", "rename", "done"})
    => /\ added \cap DOMAIN start.loaded = {}
       /\ (prev.complete /\ prev.clean)
            => \A p \in DOMAIN prev.ps \cap DOMAIN ps :
                 Sectioned(prev.ps[p]) => ps[p].Classification = prev.ps[p].Classification

\* The sections of a report that hold the link of a path, and how often they do.
SectionsWith(secs, link) ==
  {k \in DOMAIN secs : \E j \in DOMAIN secs[k].entries : secs[k].entries[j] = link}
Occurrences(secs, link) ==
  Cardinality({<<k, j>> \in (DOMAIN secs) \X (1..Len(ReportText)) :
                 j \in DOMAIN secs[k].entries /\ secs[k].entries[j] = link})
\* The title of the section a record belongs to.
TitleFor(f) ==
  CASE f.Status = StatusEmpty -> TitleEmpty
    [] f.Status = StatusFrontmatterOnly -> TitleFrontmatterOnly
    [] OTHER -> f.Classification \o <<" Files">>

\* C27: in every report written, the file of each record that has a reserved status
\* or a label is listed once, in one section, the one of its record; so after an
\* upsert that replaces a record the file stands only in the section of the new
\* record, and the report counts as many files as the map has paths.
C27_ListedInOneSection ==
  (Returned /\ lastErr = "nil")
    => LET secs == SectionsOf(ReportText)
       IN  \A p \in DOMAIN ps :
             Sectioned(ps[p])
               => LET link == formatObsidianLink(TargetFolder, p)
                  IN  /\ Occurrences(secs, link) = 1
                      /\ \A k \in SectionsWith(secs, link) : secs[k].title = TitleFor(ps[p])

\* The numbers of the Statistics block of a report and the number of its entries.
NumberOf(token) == CHOOSE n \in 0..Len(ReportText) : ToString(n) = token
IsTotalLine(line) == Len(line) = 3 /\ line[2] = "Total files processed: "
IsPartLine(line) ==
  \/ Len(line) = 3 /\ line[2] \in {"Empty files: ", "Files with frontmatter only: "}
  \/ IsCountLine(line)
RECURSIVE SumOfLines(_)
SumOfLines(lines) ==
  IF lines = <<>> THEN 0
  ELSE NumberOf(Head(lines)[Len(Head(lines))]) + SumOfLines(Tail(lines))
IsEntryLine(line) == HasPrefix(line, <<"- ", "[[">>)

\* C28: in every report written, the 'Total files processed' number is the sum of
\* the Empty count, the Frontmatter-only count and the per-label counts, and it is
\* the number of entry lines of the report.
C28_TotalIsSumOfCounts ==
  (Returned /\ lastErr = "nil")
    => LET lines == ScanLines(ReportText, <<>>)
           total == SumOfLines(SelectSeq(lines, IsTotalLine))
       IN  /\ total = SumOfLines(SelectSeq(lines, IsPartLine))
           /\ total = Len(SelectSeq(lines, IsEntryLine))

\* C29: at the end of a run the printed number of new files is the number of paths
\* passed to AddProcessedFile in the run, and the printed number of already processed
\* files is the number of scanned files the loop skipped because they were in the
\* state, whatever report the run has started from.
C29_SummaryCounts ==
  (mode = "cli" /\ pc = "done")
    => /\ Summary.new = Cardinality(added)
       /\ Summary.already =
            Cardinality({k \in DOMAIN files : files[k].Path \in DOMAIN start.loaded})

\* C30: no report written by updateReport has two sections with the same heading,
\* whatever the records and whatever labels the classifier has returned.
C30_HeadingsDistinct ==
  (mode = "codec" /\ Returned /\ lastErr = "nil")
    => LET secs == SectionsOf(ReportText)
       IN  \A j, k \in DOMAIN secs : secs[j].title = secs[k].title => j = k
====
